---- MODULE Spec2Model ----
(***************************************************************************)
(* Declarative DOM event binding: assignAutoboundEventHandlers             *)
(* (src/assignEventHandlers.js) and the demo wiring of src/index.js.       *)
(*                                                                         *)
(* A JavaScript string is modelled as a sequence of one-character strings, *)
(* so that split and trim are computed character by character.             *)
(***************************************************************************)
EXTENDS Integers, Sequences, FiniteSets, TLC

\* ------------------------------------------------------------------ bounds
MaxStrLen == 5
MaxElements == 2
MaxPasses == 2
MaxEdits == 1

\* ----------------------------------------------------------------- strings
WhiteSpace == {" ", "\t", "\n"}

\* An attribute value as getAttribute returns it: null when the attribute is
\* absent, a string otherwise.
Null == [present |-> FALSE, chars |-> <<>>]
Str(s) == [present |-> TRUE, chars |-> s]

Comma == <<",">>

RECURSIVE trimStart(_)
trimStart(s) ==
    IF s # <<>> /\ Head(s) \in WhiteSpace THEN trimStart(Tail(s)) ELSE s

RECURSIVE trimEnd(_)
trimEnd(s) ==
    IF s # <<>> /\ s[Len(s)] \in WhiteSpace
    THEN trimEnd(SubSeq(s, 1, Len(s) - 1))
    ELSE s

\* String.prototype.trim
trim(s) == trimEnd(trimStart(s))

\* SplitMatcher of String.prototype.split: does R occur in S at offset q
\* (0-based)?  The end offset of the match, or -1.
SplitMatcher(S, q, R) ==
    IF q + Len(R) <= Len(S) /\ SubSeq(S, q + 1, q + Len(R)) = R
    THEN q + Len(R)
    ELSE -1

RECURSIVE SplitLoop(_, _, _, _, _)
SplitLoop(S, R, p, q, A) ==
    IF q >= Len(S)
    THEN Append(A, SubSeq(S, p + 1, Len(S)))
    ELSE LET e == SplitMatcher(S, q, R)
         IN  IF e = -1 \/ e = p
             THEN SplitLoop(S, R, p, q + 1, A)
             ELSE SplitLoop(S, R, e, e, Append(A, SubSeq(S, p + 1, q)))

\* String.prototype.split with a string separator and no limit.
split(S, R) ==
    IF Len(S) = 0
    THEN IF SplitMatcher(S, 0, R) # -1 THEN <<>> ELSE <<S>>
    ELSE SplitLoop(S, R, 0, 0, <<>>)

NullStrError == "convertToArray() failed with null 'str' argument"
NotFoundError == "This autobound handler was not found: "

NoError == [kind |-> "none", name |-> <<>>]

\* A mutant of convertToArray: the tokens are not trimmed.
convertToArrayNoTrim(str, delimiter) ==
    IF str = Null
    THEN [ok |-> FALSE, value |-> <<>>,
          error |-> [kind |-> NullStrError, name |-> <<>>]]
    ELSE [ok |-> TRUE, value |-> split(str.chars, delimiter), error |-> NoError]

\* convertToArray(str, delimiter): the tokens, or the exception thrown.
convertToArray(str, delimiter) ==
    IF str = Null
    THEN [ok |-> FALSE, value |-> <<>>,
          error |-> [kind |-> NullStrError, name |-> <<>>]]
    ELSE LET parts == split(str.chars, delimiter)
         IN  [ok |-> TRUE,
              value |-> [i \in 1..Len(parts) |-> trim(parts[i])],
              error |-> NoError]

\* ------------------------------------------------------------------- state
VARIABLES
    doc,                     \* the document: its elements in document order
    autoboundEventHandlers,  \* the handler registry (own properties)
    listeners,               \* per element, its event listener list
    passes,                  \* per call of the binder: the registry it read, what it
                             \* threw and at which element
    edits,                   \* registry edits made by the application so far
    lastDispatch,            \* the last event dispatched and what it invoked
    str, delimiter, result,  \* an argument pair of convertToArray and its result
    panel,                   \* demo page: the sliding panel has class show-panel
    child,                   \* demo page: per element, its first child has rotate180
    documentClick,           \* demo page: document-level click listeners installed
    clicked                  \* demo page: the last click dispatched

vars == <<doc, autoboundEventHandlers, listeners, passes, edits, lastDispatch,
          str, delimiter, result, panel, child, documentClick, clicked>>
binderVars == <<doc, autoboundEventHandlers, listeners, passes, edits, lastDispatch>>
convertVars == <<str, delimiter, result>>
demoVars == <<panel, child, documentClick, clicked>>

\* ------------------------------------------------------------------- names
click == <<"c", "l", "i", "c", "k">>
focus == <<"f", "o", "c", "u", "s">>
EventTypes == {click, focus}

a == <<"a">>
b == <<"b">>
x == <<"x">>
y == <<"y">>
toStringName == <<"t", "o", "S", "t", "r", "i", "n", "g">>
undefinedName == <<"u", "n", "d", "e", "f", "i", "n", "e", "d">>

\* The values a property of the registry object can hold.
Functions == {"f1", "f2", "f3", "Object.prototype.toString",
              "testImageClick", "toggleSlidingPanel"}

typeof(v) ==
    CASE v \in Functions -> "function"
      [] v = "undefined" -> "undefined"
      [] v = "null" -> "object"
      [] OTHER -> "string"

\* The registry is created by an object literal, so it inherits from
\* Object.prototype; a property read reaches the inherited members.
ObjectPrototype == (toStringName :> "Object.prototype.toString")

\* obj[key]: the own property, else the inherited one, else undefined.
Get(obj, key) ==
    IF key \in DOMAIN obj THEN obj[key]
    ELSE IF key \in DOMAIN ObjectPrototype THEN ObjectPrototype[key]
    ELSE "undefined"

\* A mutant of handlerNameAt: an index past the end reads the last name.
handlerNameClamped(functions, index) ==
    IF index + 1 \in 1..Len(functions) THEN functions[index + 1]
    ELSE IF functions = <<>> THEN undefinedName
    ELSE functions[Len(functions)]

\* functions[index] used as a property key: an index past the end of the
\* array reads undefined, and the key undefined is the string "undefined".
\* (index is 0-based, as in the source.)
handlerNameAt(functions, index) ==
    IF index + 1 \in 1..Len(functions) THEN functions[index + 1] ELSE undefinedName

\* ------------------------------------------------------------------ binder
\* A mutant of querySelectorAll: every element is selected.
querySelectorAllStar(d) == 1..Len(d)

\* document.querySelectorAll('*[data-events]'): the positions selected.
querySelectorAll(d) == {k \in 1..Len(d) : d[k].events # Null}

\* confirmFunctionsExist(functions), from position i on: the exception thrown
\* for the first name that is null or not a function, or none.
RECURSIVE confirmFunctionsExist(_, _, _)
confirmFunctionsExist(functions, reg, i) ==
    IF i > Len(functions) THEN NoError
    ELSE IF Get(reg, functions[i]) = "null"
            \/ typeof(Get(reg, functions[i])) # "function"
         THEN [kind |-> NotFoundError, name |-> functions[i]]
         ELSE confirmFunctionsExist(functions, reg, i + 1)

\* A mutant of assignElementEventHandlers: a listener is added only for an
\* event name that was not bound earlier in the same list.
assignDeduplicated(ls, events, functions, pass) ==
    LET kept == SelectSeq([i \in 1..Len(events) |-> i],
                          LAMBDA i : \A j \in 1..(i - 1) : events[j] # events[i])
    IN  ls \o [n \in 1..Len(kept) |->
                 [type |-> events[kept[n]], functions |-> functions,
                  index |-> kept[n] - 1, pass |-> pass]]

\* A mutant of assignElementEventHandlers: an element that already has
\* listeners is left alone.
assignOnce(ls, events, functions, pass) ==
    IF ls # <<>> THEN ls
    ELSE [i \in 1..Len(events) |->
            [type |-> events[i], functions |-> functions,
             index |-> i - 1, pass |-> pass]]

\* assignElementEventHandlers(events): one listener per event name; the
\* closure captures the handler-name array and the (0-based) index.
assignElementEventHandlers(ls, events, functions, pass) ==
    ls \o [i \in 1..Len(events) |->
             [type |-> events[i], functions |-> functions,
              index |-> i - 1, pass |-> pass]]

\* The forEach callback for one element: its new listener list, or the
\* exception thrown.
bindElement(element, ls, reg, pass) ==
    LET events == convertToArray(element.events, Comma)
        functions == convertToArray(element.handlers, Comma)
    IN  IF ~events.ok THEN [listeners |-> ls, error |-> events.error]
        ELSE IF ~functions.ok THEN [listeners |-> ls, error |-> functions.error]
        ELSE LET err == confirmFunctionsExist(functions.value, reg, 1)
             IN  IF err # NoError
                 THEN [listeners |-> ls, error |-> err]
                 ELSE [listeners |->
                          assignElementEventHandlers(ls, events.value,
                                                     functions.value, pass),
                       error |-> NoError]

\* A mutant of forEach: an element that throws is skipped and the scan goes on.
RECURSIVE forEachIsolated(_, _, _, _, _)
forEachIsolated(d, k, lss, reg, pass) ==
    IF k > Len(d) THEN [listeners |-> lss, error |-> NoError, at |-> 0]
    ELSE IF k \notin querySelectorAll(d)
    THEN forEachIsolated(d, k + 1, lss, reg, pass)
    ELSE LET r == bindElement(d[k], lss[k], reg, pass)
         IN  forEachIsolated(d, k + 1, [lss EXCEPT ![k] = r.listeners], reg, pass)

\* actionElements.forEach, from document position k on: an exception of the
\* callback ends the scan.
RECURSIVE forEach(_, _, _, _, _)
forEach(d, k, lss, reg, pass) ==
    IF k > Len(d) THEN [listeners |-> lss, error |-> NoError, at |-> 0]
    ELSE IF k \notin querySelectorAll(d)
    THEN forEach(d, k + 1, lss, reg, pass)
    ELSE LET r == bindElement(d[k], lss[k], reg, pass)
         IN  IF r.error # NoError
             THEN [listeners |-> lss, error |-> r.error, at |-> k]
             ELSE forEach(d, k + 1, [lss EXCEPT ![k] = r.listeners], reg, pass)

\* A mutant of invokeListener: the handler is called as a plain method of the
\* registry, autoboundEventHandlers[handlerName](e), without the element as
\* its context.
invokeAsRegistryMethod(l, reg, element, e) ==
    LET handlerName == handlerNameAt(l.functions, l.index)
        f == Get(reg, handlerName)
    IN  IF typeof(f) = "function"
        THEN [fn |-> f, this |-> 0, args |-> <<e>>,
              index |-> l.index, pass |-> l.pass]
        ELSE [fn |-> "TypeError", this |-> 0, args |-> <<e>>,
              index |-> l.index, pass |-> l.pass]

\* A mutant of invokeListener: the handler is resolved against the registry
\* as it was when the listener was attached.
invokeResolvedAtBinding(l, reg, element, e) ==
    LET handlerName == handlerNameAt(l.functions, l.index)
        f == Get(passes[l.pass].registry, handlerName)
    IN  IF typeof(f) = "function"
        THEN [fn |-> f, this |-> element, args |-> <<e>>,
              index |-> l.index, pass |-> l.pass]
        ELSE [fn |-> "TypeError", this |-> element, args |-> <<e>>,
              index |-> l.index, pass |-> l.pass]

\* What one listener does when its event fires: the closure of lines 21-24.
invokeListener(l, reg, element, e) ==
    LET handlerName == handlerNameAt(l.functions, l.index)
        f == Get(reg, handlerName)
    IN  IF typeof(f) = "function"
        THEN [fn |-> f, this |-> element, args |-> <<e>>,
              index |-> l.index, pass |-> l.pass]
        ELSE [fn |-> "TypeError", this |-> element, args |-> <<e>>,
              index |-> l.index, pass |-> l.pass]

\* The listeners of one element that an event of the given type runs, in
\* registration order.
listenersFor(ls, type) == SelectSeq(ls, LAMBDA l : l.type = type)

\* ---------------------------------------------------------------- the page
\* "click, focus" and the like, as the markup writes them.
commaSpace == <<",", " ">>

Elements ==
    { [events |-> Str(click \o commaSpace \o focus \o <<" ">> \o Comma \o click),
       handlers |-> Str(<<" ">> \o a \o Comma \o b \o commaSpace \o a)],
      [events |-> Str(click), handlers |-> Null],
      [events |-> Str(click), handlers |-> Str(a \o commaSpace \o x \o commaSpace \o y)],
      [events |-> Str(click \o commaSpace \o focus), handlers |-> Str(a)],
      [events |-> Str(focus), handlers |-> Str(b \o Comma \o a)],
      [events |-> Null, handlers |-> Str(a)],
      [events |-> Str(click), handlers |-> Str(toStringName)] }

Documents == UNION {[1..n -> Elements] : n \in 1..MaxElements}

\* The registries the application may supply: handler names of its own
\* choosing, each holding a function or, by mistake, something else.
Registries ==
    { (a :> "f1" @@ b :> "f2"),
      (a :> "f1"),
      (a :> "f1" @@ b :> "null"),
      (a :> "f1" @@ b :> "not a function") }

NoDispatch == [target |-> 0, type |-> <<>>, calls |-> <<>>]
NoClick == [target |-> 0, installed |-> FALSE, before |-> FALSE, toggles |-> 0]
NotCalled == [ok |-> FALSE, value |-> <<>>, error |-> [kind |-> "not called", name |-> <<>>]]

\* ----------------------------------------------------------------- actions
\* One call of assignAutoboundEventHandlers().
assignAutoboundEventHandlers ==
    /\ Len(passes) < MaxPasses
    /\ LET r == forEach(doc, 1, listeners, autoboundEventHandlers, Len(passes) + 1)
       IN  /\ listeners' = r.listeners
           /\ passes' = Append(passes, [error |-> r.error, at |-> r.at,
                                        registry |-> autoboundEventHandlers])
    /\ lastDispatch' = NoDispatch
    /\ UNCHANGED <<doc, autoboundEventHandlers, edits>>
    /\ UNCHANGED <<convertVars, demoVars>>

\* The host dispatches an event of some type at an element: the element's
\* own listeners of that type run in registration order.  A listener that
\* throws is reported and the next one still runs.
dispatchEvent(element, type) ==
    /\ element \in 1..Len(doc)
    /\ LET e == [type |-> type, target |-> element]
           ls == listenersFor(listeners[element], type)
       IN  lastDispatch' =
              [target |-> element, type |-> type,
               calls |-> [n \in 1..Len(ls) |->
                            invokeListener(ls[n], autoboundEventHandlers, element, e)]]
    /\ UNCHANGED <<doc, autoboundEventHandlers, listeners, passes, edits>>
    /\ UNCHANGED <<convertVars, demoVars>>

\* After a binding pass, the application replaces the function registered
\* under one of its names.
replaceEntry(name) ==
    /\ passes # <<>>
    /\ edits < MaxEdits
    /\ name \in DOMAIN autoboundEventHandlers
    /\ autoboundEventHandlers' = [autoboundEventHandlers EXCEPT ![name] = "f3"]
    /\ edits' = edits + 1
    /\ lastDispatch' = NoDispatch
    /\ UNCHANGED <<doc, listeners, passes>>
    /\ UNCHANGED <<convertVars, demoVars>>

\* After a binding pass, the application deletes one of its registry entries.
removeEntry(name) ==
    /\ passes # <<>>
    /\ edits < MaxEdits
    /\ name \in DOMAIN autoboundEventHandlers
    /\ autoboundEventHandlers' =
          [k \in DOMAIN autoboundEventHandlers \ {name} |-> autoboundEventHandlers[k]]
    /\ edits' = edits + 1
    /\ lastDispatch' = NoDispatch
    /\ UNCHANGED <<doc, listeners, passes>>
    /\ UNCHANGED <<convertVars, demoVars>>

Init ==
    /\ doc \in Documents
    /\ autoboundEventHandlers \in Registries
    /\ listeners = [k \in 1..Len(doc) |-> <<>>]
    /\ passes = <<>>
    /\ edits = 0
    /\ lastDispatch = NoDispatch
    /\ str = Null /\ delimiter = Comma /\ result = NotCalled
    /\ panel = FALSE /\ child = <<>> /\ documentClick = 0 /\ clicked = NoClick

Next ==
    \/ assignAutoboundEventHandlers
    \/ \E element \in 1..MaxElements, type \in EventTypes : dispatchEvent(element, type)

\* The binder and the dispatch of events, the registry being what the
\* application supplied before the first call.
Spec == Init /\ [][Next]_vars

\* The pages on which the application goes on to edit its registry.
EditedElements ==
    { [events |-> Str(click \o commaSpace \o focus \o <<" ">> \o Comma \o click),
       handlers |-> Str(<<" ">> \o a \o Comma \o b \o commaSpace \o a)],
      [events |-> Str(click \o commaSpace \o focus), handlers |-> Str(a)] }

InitEdited ==
    /\ doc \in UNION {[1..n -> EditedElements] : n \in 1..MaxElements}
    /\ autoboundEventHandlers \in Registries
    /\ listeners = [k \in 1..Len(doc) |-> <<>>]
    /\ passes = <<>>
    /\ edits = 0
    /\ lastDispatch = NoDispatch
    /\ str = Null /\ delimiter = Comma /\ result = NotCalled
    /\ panel = FALSE /\ child = <<>> /\ documentClick = 0 /\ clicked = NoClick

NextEdited ==
    \/ assignAutoboundEventHandlers
    \/ \E element \in 1..MaxElements, type \in EventTypes : dispatchEvent(element, type)
    \/ \E name \in {a, b} : replaceEntry(name)
    \/ \E name \in {a, b} : removeEntry(name)

\* The same, with the application replacing and deleting registry entries
\* between the calls and the events.
SpecEdited == InitEdited /\ [][NextEdited]_vars

\* --------------------------------------------------- convertToArray alone
Alphabet == {" ", ",", "a"}
Strings == UNION {[1..n -> Alphabet] : n \in 0..MaxStrLen}
Delimiters == {<<",">>, <<>>, <<" ">>, <<",", " ">>, <<",", ",">>}

callConvertToArray ==
    /\ result = NotCalled
    /\ result' = convertToArray(str, delimiter)
    /\ UNCHANGED <<str, delimiter>>
    /\ UNCHANGED <<binderVars, demoVars>>

InitConvert ==
    /\ str \in {Null} \cup {Str(s) : s \in Strings}
    /\ delimiter \in Delimiters
    /\ result = NotCalled
    /\ doc = <<>> /\ autoboundEventHandlers = <<>> /\ listeners = <<>>
    /\ passes = <<>> /\ edits = 0 /\ lastDispatch = NoDispatch
    /\ panel = FALSE /\ child = <<>> /\ documentClick = 0 /\ clicked = NoClick

NextConvert == callConvertToArray

SpecConvert == InitConvert /\ [][NextConvert]_vars

\* ------------------------------------------------------------ the demo page
testImageClickName ==
    <<"t", "e", "s", "t", "I", "m", "a", "g", "e", "C", "l", "i", "c", "k">>
toggleSlidingPanelName ==
    <<"t", "o", "g", "g", "l", "e", "S", "l", "i", "d", "i", "n", "g",
      "P", "a", "n", "e", "l">>

\* const autoboundEventHandlers = { testImageClick, toggleSlidingPanel }
DemoRegistry ==
    (testImageClickName :> "testImageClick"
     @@ toggleSlidingPanelName :> "toggleSlidingPanel")

\* Elements of a page using the demo's handlers.  The page is a chain: the
\* element at position k + 1 lies inside the element at position k, and the
\* element at position 1 lies inside the document.
DemoElements ==
    { [events |-> Str(click), handlers |-> Str(toggleSlidingPanelName),
       firstElementChild |-> FALSE],
      [events |-> Str(click), handlers |-> Str(testImageClickName),
       firstElementChild |-> TRUE],
      [events |-> Str(click), handlers |-> Str(testImageClickName),
       firstElementChild |-> FALSE],
      [events |-> Str(click \o commaSpace \o click),
       handlers |-> Str(testImageClickName \o commaSpace \o toggleSlidingPanelName),
       firstElementChild |-> TRUE],
      [events |-> Str(focus \o commaSpace \o click),
       handlers |-> Str(toggleSlidingPanelName),
       firstElementChild |-> FALSE],
      [events |-> Null, handlers |-> Null, firstElementChild |-> TRUE],
      [events |-> Str(click), handlers |-> Null, firstElementChild |-> FALSE] }

DemoDocuments == UNION {[1..n -> DemoElements] : n \in 1..MaxElements}

\* panel.classList.toggle('show-panel') of toggleSlidingPanel.
toggleSlidingPanel(st) ==
    [st EXCEPT !.panel = ~st.panel, !.toggles = st.toggles + 1]

\* testImageClick: without a first element child, child.classList throws
\* before anything is toggled.
testImageClick(st, currentTarget) ==
    IF doc[currentTarget].firstElementChild
    THEN toggleSlidingPanel(
             [st EXCEPT !.child[currentTarget] = ~st.child[currentTarget]])
    ELSE st

\* The effect of a sequence of listener invocations on the page.
RECURSIVE runCalls(_, _, _)
runCalls(calls, i, st) ==
    IF i > Len(calls) THEN st
    ELSE runCalls(calls, i + 1,
             CASE calls[i].fn = "toggleSlidingPanel" -> toggleSlidingPanel(st)
               [] calls[i].fn = "testImageClick" -> testImageClick(st, calls[i].this)
               [] OTHER -> st)

\* The listener invocations of an event of the given type that bubbles from
\* element k up to the element at position 1.
RECURSIVE bubble(_, _, _)
bubble(k, type, e) ==
    IF k = 0 THEN <<>>
    ELSE LET ls == listenersFor(listeners[k], type)
         IN  [n \in 1..Len(ls) |->
                invokeListener(ls[n], autoboundEventHandlers, k, e)]
             \o bubble(k - 1, type, e)

\* A mutant of documentClickListener: the panel is left as it is.
documentClickIgnored(st) == st

\* The document-level click listener of index.js.
documentClickListener(st) ==
    IF st.panel THEN toggleSlidingPanel(st) ELSE st

\* index.js runs once: the binding pass, then, unless it threw, the
\* document-level click listener is installed.
indexJs ==
    /\ passes = <<>>
    /\ LET r == forEach(doc, 1, listeners, autoboundEventHandlers, 1)
       IN  /\ listeners' = r.listeners
           /\ passes' = <<[error |-> r.error, at |-> r.at,
                           registry |-> autoboundEventHandlers]>>
           /\ documentClick' = IF r.error = NoError THEN 1 ELSE 0
    /\ clicked' = NoClick
    /\ UNCHANGED <<doc, autoboundEventHandlers, edits, lastDispatch, panel, child>>
    /\ UNCHANGED convertVars

\* A click at an element: it bubbles through the enclosing elements to the
\* document.
dispatchClick(target) ==
    /\ target \in 1..Len(doc)
    /\ LET e == [type |-> click, target |-> target]
           st0 == [panel |-> panel, child |-> child, toggles |-> 0]
           st1 == runCalls(bubble(target, click, e), 1, st0)
           st2 == IF documentClick > 0 THEN documentClickListener(st1) ELSE st1
       IN  /\ panel' = st2.panel
           /\ child' = st2.child
           /\ clicked' = [target |-> target, installed |-> documentClick > 0,
                          before |-> panel, toggles |-> st1.toggles]
    /\ UNCHANGED <<documentClick, binderVars, convertVars>>

\* A focus event at an element: it does not bubble.
dispatchFocus(target) ==
    /\ target \in 1..Len(doc)
    /\ LET e == [type |-> focus, target |-> target]
           ls == listenersFor(listeners[target], focus)
           st0 == [panel |-> panel, child |-> child, toggles |-> 0]
           st1 == runCalls([n \in 1..Len(ls) |->
                              invokeListener(ls[n], autoboundEventHandlers, target, e)],
                           1, st0)
       IN  /\ panel' = st1.panel
           /\ child' = st1.child
    /\ clicked' = NoClick
    /\ UNCHANGED <<documentClick, binderVars, convertVars>>

InitDemo ==
    /\ doc \in DemoDocuments
    /\ autoboundEventHandlers = DemoRegistry
    /\ listeners = [k \in 1..Len(doc) |-> <<>>]
    /\ passes = <<>> /\ edits = 0 /\ lastDispatch = NoDispatch
    /\ panel \in BOOLEAN
    /\ child = [k \in 1..Len(doc) |-> FALSE]
    /\ documentClick = 0
    /\ clicked = NoClick
    /\ str = Null /\ delimiter = Comma /\ result = NotCalled

NextDemo ==
    \/ indexJs
    \/ \E target \in 1..MaxElements : dispatchClick(target)
    \/ \E target \in 1..MaxElements : dispatchFocus(target)

SpecDemo == InitDemo /\ [][NextDemo]_vars

\* ================================================================== claims
\* The token lists of the attribute values that occur on the pages, as
\* convertToArray yields them with the default delimiter (none for null).
AttributeValues == {e.events : e \in Elements} \cup {e.handlers : e \in Elements}
tokensOf == [v \in AttributeValues |-> convertToArray(v, Comma).value]

eventsOf(k) == tokensOf[doc[k].events]
handlersOf(k) == tokensOf[doc[k].handlers]

\* The element at position k carries a data-events attribute.
HasEvents(k) == doc[k].events # Null
HasHandlers(k) == doc[k].handlers # Null

\* Call p of the binder got as far as the element at position k.
Reached(p, k) == passes[p].at = 0 \/ k <= passes[p].at
\* Call p of the binder went through the element at position k without throwing.
BoundBy(p, k) == HasEvents(k) /\ (passes[p].at = 0 \/ k < passes[p].at)
PassesBinding(k) == {p \in 1..Len(passes) : BoundBy(p, k)}

\* The listeners call p attached to the element at position k.
AttachedBy(p, k) == SelectSeq(listeners[k], LAMBDA l : l.pass = p)

\* The application registered a function under this name.
OwnFunction(reg, name) == name \in DOMAIN reg /\ reg[name] \in Functions
\* Reading the name from the registry object yields a function.
Resolves(reg, name) == Get(reg, name) \in Functions

\* The positions (1-based) of an event type in an element's event list.
PositionsOf(k, type) ==
    SelectSeq([i \in 1..Len(eventsOf(k)) |-> i], LAMBDA i : eventsOf(k)[i] = type)

WellFormed(k, reg) ==
    /\ HasEvents(k) /\ HasHandlers(k)
    /\ Len(eventsOf(k)) = Len(handlersOf(k))
    /\ \A i \in 1..Len(handlersOf(k)) : OwnFunction(reg, handlersOf(k)[i])

Dispatched == lastDispatch.target # 0

\* C1: on an element with equal-length lists whose handler names are all
\* functions of the registry, and which one call of the binder has bound,
\* dispatching an event invokes, for each position of that event's name in
\* the event list and in list order, the registry function named at the same
\* position of the handler list, with the element as this and the event
\* object as the only argument; nothing else is invoked.
C1_HandlerAtSamePosition ==
    Dispatched =>
      LET k == lastDispatch.target
          pos == PositionsOf(k, lastDispatch.type)
      IN  (WellFormed(k, autoboundEventHandlers) /\ Cardinality(PassesBinding(k)) = 1)
          => /\ Len(lastDispatch.calls) = Len(pos)
             /\ \A n \in 1..Len(pos) :
                  /\ lastDispatch.calls[n].fn =
                        autoboundEventHandlers[handlersOf(k)[pos[n]]]
                  /\ lastDispatch.calls[n].this = k
                  /\ lastDispatch.calls[n].args =
                        <<[type |-> lastDispatch.type, target |-> k]>>

C1_Witness ==
    /\ Dispatched
    /\ WellFormed(lastDispatch.target, autoboundEventHandlers)
    /\ Cardinality(PassesBinding(lastDispatch.target)) = 1
    /\ eventsOf(lastDispatch.target) = <<click, focus, click>>
    /\ handlersOf(lastDispatch.target) = <<a, b, a>>
    /\ lastDispatch.type = focus
    /\ Len(lastDispatch.calls) = 1
    /\ lastDispatch.calls[1].fn = "f2"

\* The first handler name of an element that the application has not
\* registered as a function, 0 when there is none.
FirstUnregistered(k, reg) ==
    LET bad == {i \in 1..Len(handlersOf(k)) : ~OwnFunction(reg, handlersOf(k)[i])}
    IN  IF bad = {} THEN 0 ELSE CHOOSE i \in bad : \A j \in bad : i <= j

\* C2: when a call of the binder reaches an element one of whose handler
\* names is absent from the registry or registered as a non-function, the
\* call throws "handler not found" naming the first such name, and attaches
\* no listener to that element.
C2_UnregisteredHandlerRejected ==
    \A p \in 1..Len(passes) : \A k \in 1..Len(doc) :
      ( /\ HasEvents(k) /\ HasHandlers(k) /\ Reached(p, k)
        /\ FirstUnregistered(k, passes[p].registry) # 0 )
      => /\ passes[p].at = k
         /\ passes[p].error =
               [kind |-> NotFoundError,
                name |-> handlersOf(k)[FirstUnregistered(k, passes[p].registry)]]
         /\ AttachedBy(p, k) = <<>>

\* C3: a call of the binder that reaches an element with equal-length lists
\* whose handlers all resolve attaches to it exactly one listener per token
\* of the event list, in list order, a repeated event name included; a
\* dispatch then runs, for each call, one listener per occurrence of the
\* event's name.
C3_OneListenerPerToken ==
    /\ \A p \in 1..Len(passes) : \A k \in 1..Len(doc) :
         ( /\ HasEvents(k) /\ HasHandlers(k) /\ Reached(p, k)
           /\ Len(eventsOf(k)) = Len(handlersOf(k))
           /\ \A i \in 1..Len(handlersOf(k)) :
                 Resolves(passes[p].registry, handlersOf(k)[i]) )
         => /\ Len(AttachedBy(p, k)) = Len(eventsOf(k))
            /\ \A i \in 1..Len(eventsOf(k)) :
                 /\ AttachedBy(p, k)[i].type = eventsOf(k)[i]
                 /\ AttachedBy(p, k)[i].index = i - 1
                 /\ AttachedBy(p, k)[i].functions = handlersOf(k)
    /\ Dispatched =>
         \A p \in 1..Len(passes) :
           LET k == lastDispatch.target
           IN  ( /\ BoundBy(p, k) /\ HasHandlers(k)
                 /\ Len(eventsOf(k)) = Len(handlersOf(k)) )
               => Len(SelectSeq(lastDispatch.calls, LAMBDA c : c.pass = p))
                     = Len(PositionsOf(k, lastDispatch.type))

C3_Witness ==
    /\ Dispatched
    /\ Len(passes) = 1
    /\ passes[1].error = NoError
    /\ HasEvents(lastDispatch.target)
    /\ eventsOf(lastDispatch.target) = <<click, focus, click>>
    /\ handlersOf(lastDispatch.target) = <<a, b, a>>
    /\ lastDispatch.type = click
    /\ Len(lastDispatch.calls) = 2
    /\ \A n \in 1..2 : lastDispatch.calls[n].fn = "f1"

\* C4: the binder keeps no record of what it has bound: every call that goes
\* through an element attaches a fresh listener per event token, so after n
\* such calls the element has n listeners per token and a dispatch invokes
\* the handler of each matching position n times (twice after two calls).
C4_PassesAccumulate ==
    /\ \A k \in 1..Len(doc) :
         Len(listeners[k]) = Cardinality(PassesBinding(k)) * Len(eventsOf(k))
    /\ Dispatched =>
         LET k == lastDispatch.target
             pos == PositionsOf(k, lastDispatch.type)
         IN  /\ Len(lastDispatch.calls) = Cardinality(PassesBinding(k)) * Len(pos)
             /\ \A n \in 1..Len(pos) : \A p \in PassesBinding(k) :
                  Cardinality({m \in 1..Len(lastDispatch.calls) :
                                  /\ lastDispatch.calls[m].pass = p
                                  /\ lastDispatch.calls[m].index = pos[n] - 1}) = 1

C4_Witness ==
    /\ Len(passes) = 2
    /\ \A p \in 1..2 : passes[p].error = NoError
    /\ Dispatched
    /\ Len(PositionsOf(lastDispatch.target, lastDispatch.type)) = 1
    /\ Len(lastDispatch.calls) = 2
    /\ lastDispatch.calls[1].fn = "f1" /\ lastDispatch.calls[2].fn = "f1"
    /\ lastDispatch.calls[1].pass = 1 /\ lastDispatch.calls[2].pass = 2

\* C5: the binder processes the elements that carry data-events and no
\* others; when it reaches one that has no data-handlers attribute,
\* convertToArray throws its null-argument error and the element gets no
\* listener.
C5_SelectionAndNullHandlers ==
    /\ \A k \in 1..Len(doc) :
         ~HasEvents(k) =>
            /\ listeners[k] = <<>>
            /\ \A p \in 1..Len(passes) : passes[p].at # k
    /\ \A p \in 1..Len(passes) : \A k \in 1..Len(doc) :
         (HasEvents(k) /\ Reached(p, k)) =>
            /\ passes[p].at = k \/ AttachedBy(p, k) # <<>>
            /\ ~HasHandlers(k) =>
                 /\ passes[p].at = k
                 /\ passes[p].error = [kind |-> NullStrError, name |-> <<>>]
                 /\ listeners[k] = <<>>

C5_Witness ==
    /\ Len(doc) = 2
    /\ ~HasEvents(1)
    /\ HasEvents(2) /\ ~HasHandlers(2)
    /\ Len(passes) = 1
    /\ passes[1].at = 2
    /\ passes[1].error.kind = NullStrError

\* The configuration of the element at position k fails against a registry.
Fails(k, reg) ==
    \/ ~HasHandlers(k)
    \/ \E i \in 1..Len(handlersOf(k)) : ~Resolves(reg, handlersOf(k)[i])

\* C7: a call of the binder throws exactly when some data-events element
\* fails, at the first such element in document order; the elements before
\* it keep the listeners the call attached, and that element and all after
\* it get none from the call.
C7_FirstFailureAbortsScan ==
    \A p \in 1..Len(passes) :
      LET failing == {k \in 1..Len(doc) : HasEvents(k) /\ Fails(k, passes[p].registry)}
      IN  IF failing = {}
          THEN passes[p].error = NoError /\ passes[p].at = 0
          ELSE /\ passes[p].error # NoError
               /\ passes[p].at \in failing
               /\ \A j \in failing : passes[p].at <= j
               /\ \A j \in 1..Len(doc) :
                    IF j < passes[p].at
                    THEN Len(AttachedBy(p, j)) = Len(eventsOf(j))
                    ELSE AttachedBy(p, j) = <<>>

C7_Witness ==
    /\ Len(doc) = 2
    /\ Len(passes) = 1
    /\ passes[1].at = 1
    /\ passes[1].error.kind = NotFoundError
    /\ WellFormed(2, passes[1].registry)
    /\ listeners[2] = <<>>

\* C8: an element with more event tokens than handler tokens, all of which
\* resolve, is bound without an error, one listener per event token; a
\* listener whose position is past the end of the handler list calls no
\* handler and fails when its event fires.  With fewer events than
\* handlers every handler name is validated, and no listener is bound to a
\* position past the end of the event list.
C8_MismatchedLengths ==
    /\ \A p \in 1..Len(passes) : \A k \in 1..Len(doc) :
         (HasEvents(k) /\ HasHandlers(k) /\ Reached(p, k)) =>
            /\ ( /\ Len(eventsOf(k)) > Len(handlersOf(k))
                 /\ \A i \in 1..Len(handlersOf(k)) :
                       Resolves(passes[p].registry, handlersOf(k)[i]) )
               => /\ passes[p].at # k
                  /\ Len(AttachedBy(p, k)) = Len(eventsOf(k))
            /\ ( /\ Len(eventsOf(k)) < Len(handlersOf(k))
                 /\ \E i \in 1..Len(handlersOf(k)) :
                       ~Resolves(passes[p].registry, handlersOf(k)[i]) )
               => passes[p].at = k
    /\ \A k \in 1..Len(doc) : \A n \in 1..Len(listeners[k]) :
         listeners[k][n].index < Len(eventsOf(k))
    /\ Dispatched =>
         \A n \in 1..Len(lastDispatch.calls) :
            lastDispatch.calls[n].index >= Len(handlersOf(lastDispatch.target))
               => lastDispatch.calls[n].fn = "TypeError"

C8_Witness ==
    /\ Dispatched
    /\ eventsOf(lastDispatch.target) = <<click, focus>>
    /\ handlersOf(lastDispatch.target) = <<a>>
    /\ lastDispatch.type = focus
    /\ Len(lastDispatch.calls) = 1
    /\ lastDispatch.calls[1].fn = "TypeError"
    /\ passes[lastDispatch.calls[1].pass].error = NoError

\* C9: a listener reads the registry when its event fires: for a handler
\* name the application had registered when the listener was attached, the
\* dispatch invokes the function registered under it now (the replacement,
\* if it was replaced) and fails without invoking anything if the entry was
\* removed, although the call that attached it validated the name.  The
\* binder itself leaves the registry as it found it.
C9_ResolvedAtDispatch ==
    /\ Dispatched =>
         \A n \in 1..Len(lastDispatch.calls) :
            LET c == lastDispatch.calls[n]
                k == lastDispatch.target
                hs == handlersOf(k)
            IN  /\ BoundBy(c.pass, k)
                /\ ( /\ c.index < Len(hs)
                     /\ hs[c.index + 1] \in DOMAIN passes[c.pass].registry )
                   => IF OwnFunction(autoboundEventHandlers, hs[c.index + 1])
                      THEN c.fn = autoboundEventHandlers[hs[c.index + 1]]
                      ELSE c.fn = "TypeError"
    /\ edits = 0 =>
         \A p \in 1..Len(passes) : passes[p].registry = autoboundEventHandlers

C9_Witness ==
    /\ Dispatched
    /\ edits = 1
    /\ Len(lastDispatch.calls) = 1
    /\ lastDispatch.calls[1].fn = "f3"
    /\ Get(passes[lastDispatch.calls[1].pass].registry,
           handlersOf(lastDispatch.target)[lastDispatch.calls[1].index + 1]) = "f1"

\* C10: with the binding pass done and the document-level click listener
\* installed, the sliding panel does not have the class show-panel when the
\* dispatch of a click has completed.
C10_PanelHiddenAfterClick ==
    (clicked.target # 0 /\ clicked.installed) => ~panel

C10_Witness ==
    /\ clicked.target # 0
    /\ clicked.installed
    /\ ~clicked.before
    /\ clicked.toggles = 1
    /\ ~panel

\* ---------------------------------------------------- C6: convertToArray
\* The offsets (0-based) at which the delimiter occurs in S, found from the
\* left without overlap; the empty delimiter occurs at every offset.
RECURSIVE occurrencesFrom(_, _, _)
occurrencesFrom(S, R, q) ==
    IF q + Len(R) > Len(S) THEN {}
    ELSE IF SubSeq(S, q + 1, q + Len(R)) = R
    THEN {q} \cup occurrencesFrom(S, R, q + (IF R = <<>> THEN 1 ELSE Len(R)))
    ELSE occurrencesFrom(S, R, q + 1)

Occurrences(S, R) == occurrencesFrom(S, R, 0)

\* The i-th smallest occurrence offset.
NthOccurrence(S, R, i) ==
    CHOOSE o \in Occurrences(S, R) :
        Cardinality({o2 \in Occurrences(S, R) : o2 < o}) = i - 1

\* The substring between the (i-1)-th and the i-th delimiter occurrence.
Between(S, R, i) ==
    LET n == Cardinality(Occurrences(S, R))
        from == IF i = 1 THEN 0 ELSE NthOccurrence(S, R, i - 1) + Len(R)
        to == IF i = n + 1 THEN Len(S) ELSE NthOccurrence(S, R, i)
    IN  SubSeq(S, from + 1, to)

\* t is s without its leading and trailing whitespace.
IsTrimOf(t, s) ==
    /\ t = <<>> \/ (t[1] \notin WhiteSpace /\ t[Len(t)] \notin WhiteSpace)
    /\ \E p \in 0..(Len(s) - Len(t)) :
         /\ SubSeq(s, p + 1, p + Len(t)) = t
         /\ \A i \in 1..p : s[i] \in WhiteSpace
         /\ \A i \in (p + Len(t) + 1)..Len(s) : s[i] \in WhiteSpace

Called == result # NotCalled

\* C6 as stated: for every non-null string and every delimiter, the result
\* is the substrings between consecutive delimiters, each trimmed, in
\* order, one more than there are delimiter occurrences.
C6_TokensBetweenDelimiters ==
    (Called /\ str # Null) =>
       /\ result.ok
       /\ Len(result.value) = Cardinality(Occurrences(str.chars, delimiter)) + 1
       /\ \A i \in 1..Len(result.value) :
            IsTrimOf(result.value[i], Between(str.chars, delimiter, i))

\* C6, amended: the statement holds for every non-empty delimiter; with the
\* empty delimiter the result is the string's characters one by one, each
\* trimmed, and no token at all for the empty string.
C6_TokensBetweenNonEmptyDelimiters ==
    (Called /\ str # Null) =>
       /\ result.ok
       /\ IF delimiter # <<>>
          THEN /\ Len(result.value)
                    = Cardinality(Occurrences(str.chars, delimiter)) + 1
               /\ \A i \in 1..Len(result.value) :
                    IsTrimOf(result.value[i], Between(str.chars, delimiter, i))
          ELSE /\ Len(result.value) = Len(str.chars)
               /\ \A i \in 1..Len(result.value) :
                    IsTrimOf(result.value[i], <<str.chars[i]>>)

C6_Witness ==
    /\ Called
    /\ str = Str(<<" ", "a", ",", " ", ",">>)
    /\ delimiter = Comma
    /\ result.value = <<a, <<>>, <<>>>>

====
